---- MODULE Spec2Model ----
(***************************************************************************)
(* AI Arena: the run coordinator (ArenaGenerator) and the result viewer    *)
(* and exporter (ArenaViewer), as one state machine.                       *)
(*                                                                         *)
(* Every handler or promise continuation of the two components is one      *)
(* action: the browser's event loop runs each of them to completion (to    *)
(* its next await) before it runs another.  The model backend, the record  *)
(* store and the clock are the environment: a pending chat request, store  *)
(* write or store read settles at any later time and in any order.         *)
(*                                                                         *)
(* Text is a sequence of one-character strings, so that the export's       *)
(* character replacement is computed and not assumed.                      *)
(***************************************************************************)
EXTENDS Integers, Sequences, FiniteSets, Bags, TLC

(***************************************************************************)
(* Bounds of the model.                                                    *)
(***************************************************************************)
\* how many models the backend lists
NumModels == 2
\* how many times "Run Message" is clicked
MaxRuns == 2
\* how many chat requests or store writes are rejected
MaxFailures == 1
\* how far the wall clock advances
MaxTime == 1
\* how many times the export button is clicked
MaxExports == 2
\* how many records a cached list drawn for the export holds
MaxRows == 2

VARIABLES
    _ollamaInstance,    \* generator: whether the backend client has been created
    listPc,             \* generator: position of firstUpdated: "new", "listing", "ready", "failed"
    _llm,               \* generator: the model descriptors, each with its selected flag
    _results,           \* generator: the in-memory results behind the progress bar; only the
                        \* array's length is ever read, so it is kept as the bag of its elements
    _running,           \* generator: the busy flag
    _selectedLLM,       \* generator: the selection the last click captured (indices into _llm)
    runs,               \* generator: one closure per click: uuid, counter, queryInput, tasks
    failures,           \* environment: rejections so far
    now,                \* environment: the wall clock
    store,              \* the responses table of the IndexedDB database
    viewerPc,           \* viewer: "new", "connected" (listener registered), "ready" (_dexie created)
    _responses,         \* viewer: the cached list
    reads,              \* viewer: the toArray() reads in flight, a bag of their results
    alerts,             \* viewer: how many "No data to export." alerts were shown
    downloads           \* viewer: the contents of the files offered for download

vars == <<_ollamaInstance, listPc, _llm, _results, _running, _selectedLLM, runs,
          failures, now, store, viewerPc, _responses, reads, alerts, downloads>>

genVars == <<_ollamaInstance, listPc, _llm, _results, _running, _selectedLLM, runs>>
viewVars == <<viewerPc, _responses, reads, alerts, downloads>>

(***************************************************************************)
(* Text.                                                                   *)
(***************************************************************************)
TAB == "\t"
CR == "\r"
LF == "\n"
SP == " "

Digit(d) == CASE d = 0 -> "0" [] d = 1 -> "1" [] d = 2 -> "2" [] d = 3 -> "3"
              [] d = 4 -> "4" [] d = 5 -> "5" [] d = 6 -> "6" [] d = 7 -> "7"
              [] d = 8 -> "8" [] d = 9 -> "9"

RECURSIVE NumberToString(_)
\* Number.prototype.toString() of a non-negative integer.
NumberToString(n) ==
    IF n < 10 THEN <<Digit(n)>>
    ELSE Append(NumberToString(n \div 10), Digit(n % 10))

\* The texts the user types into the prompt field.
Prompts == { <<"h", "i">>, <<"a", TAB, "b", LF>> }

(***************************************************************************)
(* The backend (Ollama): list() and chat().                                *)
(***************************************************************************)
\* What list() can return: { name, size, details: { parameter_size, family } }.
Catalog ==
    << [name |-> <<"l", "3">>, size |-> 1536,
        details |-> [parameter_size |-> <<"8", "B">>, family |-> <<"l">>]],
       [name |-> <<"m", "7">>, size |-> 512,
        details |-> [parameter_size |-> <<"7", "B">>, family |-> <<"m">>]],
       [name |-> <<"p", "3">>, size |-> 2097152,
        details |-> [parameter_size |-> <<"3", "B">>, family |-> <<"p">>]],
       [name |-> <<"g", "2">>, size |-> 1000,
        details |-> [parameter_size |-> <<"2", "B">>, family |-> <<"g">>]] >>

models == SubSeq(Catalog, 1, NumModels)

\* What chat() can resolve to: the ChatResponse fields the generator reads.
\* Durations are in nanoseconds.
ChatResponses ==
    { [created_at |-> <<"t", "1">>,
       message |-> [content |-> <<"o", "k">>],
       total_duration |-> 2500000, load_duration |-> 1234567,
       prompt_eval_count |-> 3, prompt_eval_duration |-> 1500000,
       eval_count |-> 7, eval_duration |-> 2000000] }

(***************************************************************************)
(* ArenaGenerator.                                                         *)
(***************************************************************************)
\* models.map(...): a descriptor per listed model, none selected.
Descriptor(model) ==
    [name |-> model.name,
     parameters |-> model.details.parameter_size,
     size |-> model.size,
     family |-> model.details.family,
     selected |-> FALSE]

\* FilterSelected falling back to every descriptor when none is checked.
FilterSelected_AllIfNone(l, i) ==
    SelectSeq([k \in 1..Len(l) |-> k],
              LAMBDA k : k >= i /\ (l[k].selected \/ \A j \in 1..Len(l) : ~l[j].selected))

RECURSIVE FilterSelected(_, _)
\* this._llm.filter((llm) => llm.selected), as the indices of the kept
\* descriptors from index i on: the array holds references to the
\* descriptor objects of _llm, in _llm's order.
FilterSelected(l, i) ==
    IF i > Len(l) THEN <<>>
    ELSE IF l[i].selected THEN <<i>> \o FilterSelected(l, i + 1)
    ELSE FilterSelected(l, i + 1)

\* ResponseRecord with the query taken from the response's message.
ResponseRecord_MessageAsQuery(response, llm, queryInput, uuid, started) ==
    [created_at |-> response.created_at,
     eval_count |-> response.eval_count,
     eval_duration |-> response.eval_duration,
     model_family |-> llm.family,
     load_duration |-> response.load_duration,
     message |-> response.message.content,
     model_name |-> llm.name,
     parameters |-> llm.parameters,
     prompt_eval_count |-> response.prompt_eval_count,
     prompt_eval_duration |-> response.prompt_eval_duration,
     query |-> response.message.content,
     size |-> llm.size,
     started |-> started,
     total_duration |-> response.total_duration,
     group_id |-> uuid]

\* The record handed to responses.add(): the store assigns the id.
ResponseRecord(response, llm, queryInput, uuid, started) ==
    [created_at |-> response.created_at,
     eval_count |-> response.eval_count,
     eval_duration |-> response.eval_duration,
     model_family |-> llm.family,
     load_duration |-> response.load_duration,
     message |-> response.message.content,
     model_name |-> llm.name,
     parameters |-> llm.parameters,
     prompt_eval_count |-> response.prompt_eval_count,
     prompt_eval_duration |-> response.prompt_eval_duration,
     query |-> queryInput,
     size |-> llm.size,
     started |-> started,
     total_duration |-> response.total_duration,
     group_id |-> uuid]

\* AllCounted satisfied by the first counted response.
AllCounted_AnyCounted(selected, counter) == counter >= 1

\* AllCounted that never holds: the counter compared with a length it passed.
AllCounted_Never(selected, counter) == Len(selected) = counter - Len(selected) - 1

\* AllCounted with the selection filtered again when the test is made.
AllCounted_Live(selected, counter) == Len(FilterSelected(_llm, 1)) = counter

\* The test that ends the busy state: this._selectedLLM.length === counter.
AllCounted(selected, counter) == Len(selected) = counter

\* StoreAdd that writes under the last id in use (a put under a fixed key).
StoreAdd_Overwrite(table, record) ==
    IF table = <<>> THEN <<[id |-> 1] @@ record>>
    ELSE [table EXCEPT ![Len(table)] = [id |-> Len(table)] @@ record]

\* responses.add(record): appended under the next auto-incremented id.
StoreAdd(table, record) ==
    Append(table, [id |-> Len(table) + 1] @@ record)

\* RandomUUID that returns the one token made when the module was loaded.
RandomUUID_Constant(earlier) == <<"u", "0">>

\* self.crypto.randomUUID(): a token no earlier call returned.
RandomUUID(earlier) == <<"u">> \o NumberToString(Len(earlier) + 1)

(***************************************************************************)
(* Values of the viewer's cached list: toArray()'s array, or undefined     *)
(* (what this._dexie?.responses.toArray() is before _dexie is created).    *)
(***************************************************************************)
Undefined == [undefined |-> TRUE, array |-> <<>>]
Array(a) == [undefined |-> FALSE, array |-> a]

(***************************************************************************)
(* ArenaViewer._updateList, as it is called from a handler: with _dexie    *)
(* created it starts a toArray() read of the table (whose result is        *)
(* assigned when the read resolves, see ReadResolve); without _dexie the   *)
(* awaited value is undefined and is assigned in the handler's own         *)
(* microtasks.                                                             *)
(***************************************************************************)
UpdateList(table) ==
    IF viewerPc = "ready"
    THEN /\ reads' = reads (+) SetToBag({Array(table)})
         /\ UNCHANGED _responses
    ELSE /\ _responses' = Undefined
         /\ UNCHANGED reads

\* dispatchEvent(new CustomEvent("generator:done", {bubbles, composed})):
\* runs the listener the viewer registered on document.body, if any.
DispatchDone(table) ==
    IF viewerPc = "new"
    THEN UNCHANGED <<_responses, reads>>
    ELSE UpdateList(table)

(***************************************************************************)
(* ArenaGenerator: the handlers.                                           *)
(***************************************************************************)
Init ==
    /\ _ollamaInstance = FALSE
    /\ listPc = "new"
    /\ _llm = <<>>
    /\ _results = EmptyBag
    /\ _running = FALSE
    /\ _selectedLLM = <<>>
    /\ runs = <<>>
    /\ failures = 0
    /\ now = 0
    /\ store = <<>>
    /\ viewerPc = "new"
    /\ _responses = Array(<<>>)
    /\ reads = EmptyBag
    /\ alerts = 0
    /\ downloads = <<>>

\* firstUpdated up to its await: the client is created and list() is called.
GeneratorFirstUpdated ==
    /\ listPc = "new"
    /\ _ollamaInstance' = TRUE
    /\ listPc' = "listing"
    /\ UNCHANGED <<_llm, _results, _running, _selectedLLM, runs, failures, now, store>>
    /\ UNCHANGED viewVars

\* list() resolves: the descriptors replace _llm.
ListResolve ==
    /\ listPc = "listing"
    /\ _llm' = [i \in 1..Len(models) |-> Descriptor(models[i])]
    /\ listPc' = "ready"
    /\ UNCHANGED <<_ollamaInstance, _results, _running, _selectedLLM, runs, failures, now, store>>
    /\ UNCHANGED viewVars

\* list() rejects: the error is logged and firstUpdated's promise rejects.
ListReject ==
    /\ listPc = "listing"
    /\ listPc' = "failed"
    /\ UNCHANGED <<_ollamaInstance, _llm, _results, _running, _selectedLLM, runs, failures, now, store>>
    /\ UNCHANGED viewVars

\* The checkbox of descriptor idx changes.
ToggleSelection(idx) ==
    /\ idx \in 1..Len(_llm)
    /\ _llm' = [_llm EXCEPT ![idx].selected = ~_llm[idx].selected]
    /\ UNCHANGED <<_ollamaInstance, listPc, _results, _running, _selectedLLM, runs, failures, now, store>>
    /\ UNCHANGED viewVars

\* The task forEach starts for one selected descriptor: chat() is called
\* and awaited.
NewTask(llm) == [llm |-> llm, pc |-> "chat"]

\* Whether a request or a store write of some run is still outstanding.
InFlight ==
    \E r \in 1..Len(runs) : \E i \in 1..Len(runs[r].tasks) :
        runs[r].tasks[i].pc \in {"chat", "add"}

\* _handleClick, with queryInput the text of the prompt field.  The button
\* is rendered by the update that calls firstUpdated.  Beside the closure's
\* uuid, counter and queryInput the run keeps, for the properties only, the
\* descriptors that were checked at the click, the time of the click, whether
\* another run was in flight then, and how many generator:done events its
\* tasks have dispatched.
HandleClick(queryInput) ==
    /\ listPc # "new"
    /\ Len(runs) < MaxRuns
    /\ IF ~_ollamaInstance
       THEN UNCHANGED genVars
       ELSE LET uuid == RandomUUID(runs)
                selected == FilterSelected(_llm, 1)
            IN /\ _selectedLLM' = selected
               /\ _running' = TRUE
               /\ runs' = Append(runs,
                      [uuid |-> uuid, counter |-> 0, queryInput |-> queryInput,
                       tasks |-> [i \in 1..Len(selected) |-> NewTask(selected[i])],
                       chosen |-> {idx \in 1..Len(_llm) : _llm[idx].selected},
                       clicked |-> now, alone |-> ~InFlight, dispatched |-> 0])
               /\ UNCHANGED <<_ollamaInstance, listPc, _llm, _results>>
    /\ UNCHANGED <<failures, now, store>>
    /\ UNCHANGED viewVars

\* chat() of task i of run r resolves with response: the counter is
\* incremented, the result is pushed and responses.add() is called and
\* awaited.  (response is undefined only without _ollamaInstance, with
\* which _handleClick has returned before.)
ChatResolve(r, i, response) ==
    /\ r \in 1..Len(runs)
    /\ i \in 1..Len(runs[r].tasks)
    /\ runs[r].tasks[i].pc = "chat"
    /\ LET llm == _llm[runs[r].tasks[i].llm]
           started == now
       IN /\ _results' = _results (+) SetToBag({
                 [response |-> response, llm |-> llm,
                  query |-> runs[r].queryInput, started |-> started]})
          /\ runs' = [runs EXCEPT
                 ![r].counter = @ + 1,
                 ![r].tasks[i] = [llm |-> @.llm, pc |-> "add",
                     record |-> ResponseRecord(response, llm, runs[r].queryInput,
                                               runs[r].uuid, started)]]
    /\ UNCHANGED <<_ollamaInstance, listPc, _llm, _running, _selectedLLM, failures, now, store>>
    /\ UNCHANGED viewVars

\* chat() of task i of run r rejects: the task's promise rejects, unhandled.
ChatReject(r, i) ==
    /\ failures < MaxFailures
    /\ r \in 1..Len(runs)
    /\ i \in 1..Len(runs[r].tasks)
    /\ runs[r].tasks[i].pc = "chat"
    /\ runs' = [runs EXCEPT ![r].tasks[i] = [llm |-> @.llm, pc |-> "rejected"]]
    /\ failures' = failures + 1
    /\ UNCHANGED <<_ollamaInstance, listPc, _llm, _results, _running, _selectedLLM, now, store>>
    /\ UNCHANGED viewVars

\* EventsAfterAdd with the dispatch inside the test of the counter.
EventsAfterAdd_WhenAllCounted(selected, counter) ==
    IF Len(selected) = counter THEN 1 ELSE 0

\* How many generator:done events a task dispatches when its add() has
\* resolved: the dispatch follows the test of the counter and is not part
\* of it.
EventsAfterAdd(selected, counter) == 1

\* AddResolve with generator:done dispatched before the write has completed:
\* the listener's read is of the table without the record.
AddResolve_DispatchBeforeStored(r, i) ==
    /\ r \in 1..Len(runs)
    /\ i \in 1..Len(runs[r].tasks)
    /\ runs[r].tasks[i].pc = "add"
    /\ store' = StoreAdd(store, runs[r].tasks[i].record)
    /\ _running' = IF AllCounted(_selectedLLM, runs[r].counter) THEN FALSE ELSE _running
    /\ LET events == EventsAfterAdd(_selectedLLM, runs[r].counter)
       IN /\ IF events > 0 THEN DispatchDone(store) ELSE UNCHANGED <<_responses, reads>>
          /\ runs' = [runs EXCEPT ![r].tasks[i] = [llm |-> @.llm, pc |-> "done"],
                                  ![r].dispatched = @ + events]
    /\ UNCHANGED <<_ollamaInstance, listPc, _llm, _results, _selectedLLM, failures, now>>
    /\ UNCHANGED <<viewerPc, alerts, downloads>>

\* responses.add() of task i of run r resolves, the record being stored:
\* the busy flag is cleared if the counter has reached the selection's
\* length, generator:done is dispatched and an update is requested.
AddResolve(r, i) ==
    /\ r \in 1..Len(runs)
    /\ i \in 1..Len(runs[r].tasks)
    /\ runs[r].tasks[i].pc = "add"
    /\ store' = StoreAdd(store, runs[r].tasks[i].record)
    /\ _running' = IF AllCounted(_selectedLLM, runs[r].counter) THEN FALSE ELSE _running
    /\ LET events == EventsAfterAdd(_selectedLLM, runs[r].counter)
       IN /\ IF events > 0 THEN DispatchDone(store') ELSE UNCHANGED <<_responses, reads>>
          /\ runs' = [runs EXCEPT ![r].tasks[i] = [llm |-> @.llm, pc |-> "done"],
                                  ![r].dispatched = @ + events]
    /\ UNCHANGED <<_ollamaInstance, listPc, _llm, _results, _selectedLLM, failures, now>>
    /\ UNCHANGED <<viewerPc, alerts, downloads>>

\* responses.add() of task i of run r rejects: nothing is stored and the
\* task's promise rejects, unhandled.
AddReject(r, i) ==
    /\ failures < MaxFailures
    /\ r \in 1..Len(runs)
    /\ i \in 1..Len(runs[r].tasks)
    /\ runs[r].tasks[i].pc = "add"
    /\ runs' = [runs EXCEPT ![r].tasks[i] = [llm |-> @.llm, pc |-> "addRejected"]]
    /\ failures' = failures + 1
    /\ UNCHANGED <<_ollamaInstance, listPc, _llm, _results, _running, _selectedLLM, now, store>>
    /\ UNCHANGED viewVars

\* The wall clock advances.
Tick ==
    /\ now < MaxTime
    /\ now' = now + 1
    /\ UNCHANGED <<failures, store>>
    /\ UNCHANGED genVars
    /\ UNCHANGED viewVars

(***************************************************************************)
(* ArenaViewer: the handlers.                                              *)
(***************************************************************************)
\* connectedCallback: the generator:done listener is registered.
ConnectedCallback ==
    /\ viewerPc = "new"
    /\ viewerPc' = "connected"
    /\ UNCHANGED <<_responses, reads, alerts, downloads, failures, now, store>>
    /\ UNCHANGED genVars

\* firstUpdated: _dexie is created and the list is read.
ViewerFirstUpdated ==
    /\ viewerPc = "connected"
    /\ viewerPc' = "ready"
    /\ reads' = reads (+) SetToBag({Array(store)})
    /\ UNCHANGED <<_responses, alerts, downloads, failures, now, store>>
    /\ UNCHANGED genVars

\* A toArray() read resolves: its result replaces the cached list.
ReadResolve(result) ==
    /\ BagIn(result, reads)
    /\ _responses' = result
    /\ reads' = reads (-) SetToBag({result})
    /\ UNCHANGED <<viewerPc, alerts, downloads, failures, now, store>>
    /\ UNCHANGED genVars

(***************************************************************************)
(* ArenaViewer._exportToExcel.                                             *)
(***************************************************************************)
headers ==
    << <<"F", "a", "m", "i", "l", "y">>,
       <<"M", "o", "d", "e", "l">>,
       <<"P", "a", "r", "a", "m", "e", "t", "e", "r", "s">>,
       <<"S", "i", "z", "e">>,
       <<"Q", "u", "e", "r", "y">>,
       <<"R", "e", "s", "p", "o", "n", "s", "e">>,
       <<"T", "o", "t", "a", "l", " ", "D", "u", "r", "a", "t", "i", "o", "n">>,
       <<"L", "o", "a", "d", " ", "D", "u", "r", "a", "t", "i", "o", "n">>,
       <<"P", "r", "o", "m", "p", "t", " ", "E", "v", "a", "l", " ", "T", "o", "k", "e", "n">>,
       <<"P", "r", "o", "m", "p", "t", " ", "E", "v", "a", "l", " ", "D", "u", "r", "a", "t", "i", "o", "n">>,
       <<"P", "r", "o", "m", "p", "t", " ", "E", "v", "a", "l", " ", "T", "o", "k", "e", "n", "/", "s">>,
       <<"R", "e", "s", "p", "o", "n", "s", "e", " ", "T", "o", "k", "e", "n">>,
       <<"R", "e", "s", "p", "o", "n", "s", "e", " ", "D", "u", "r", "a", "t", "i", "o", "n">>,
       <<"R", "e", "s", "p", "o", "n", "s", "e", " ", "T", "o", "k", "e", "n", "/", "s">>,
       <<"C", "r", "e", "a", "t", "e", "d">>,
       <<"G", "r", "o", "u", "p">> >>

\* The text of hundredths / 100 with two decimals.
Fixed2(hundredths) ==
    NumberToString(hundredths \div 100)
        \o <<".", Digit((hundredths \div 10) % 10), Digit(hundredths % 10)>>

RECURSIVE LongDiv(_, _, _, _)
\* <<quotient, remainder>> of (q * den + rem) * 10^k by den, digit by digit.
LongDiv(q, rem, den, k) ==
    IF k = 0 THEN <<q, rem>>
    ELSE LongDiv(q * 10 + (rem * 10) \div den, (rem * 10) % den, den, k - 1)

\* (n / 1000000).toFixed(2), n a non-negative integer: the nearest number of
\* hundredths, a tie going up.
MillisFixed(n) == Fixed2((n + 5000) \div 10000)

\* ((count / duration) * 1000000000).toFixed(2), both non-negative integers:
\* NaN for 0 / 0, Infinity for a division by 0, else the nearest number of
\* hundredths of count * 10^9 / duration.
PerSecondFixed(count, duration) ==
    IF duration = 0
    THEN IF count = 0 THEN <<"N", "a", "N">>
         ELSE <<"I", "n", "f", "i", "n", "i", "t", "y">>
    ELSE LET d == LongDiv(count \div duration, count % duration, duration, 11)
         IN Fixed2(IF 2 * d[2] >= duration THEN d[1] + 1 ELSE d[1])

\* humanFileSize(bytes) of ./utils: the size in the largest unit of 1024
\* that keeps it at least 1, with one decimal, and the unit's name.
humanFileSize(bytes) ==
    LET Tenths(n, unit) == (n * 10 + unit \div 2) \div unit
        OneDecimal(t) == NumberToString(t \div 10) \o <<".", Digit(t % 10)>>
    IN IF bytes < 1024 THEN NumberToString(bytes) \o <<SP, "B">>
       ELSE IF bytes < 1048576
       THEN OneDecimal(Tenths(bytes, 1024)) \o <<SP, "k", "i", "B">>
       ELSE OneDecimal(Tenths(bytes \div 1024, 1024)) \o <<SP, "M", "i", "B">>

\* escapeTSVValue that replaces the tabs only.
escapeTSVValue_TabsOnly(value) ==
    [k \in 1..Len(value) |-> IF value[k] = TAB THEN SP ELSE value[k]]

\* value.replace(/[\t\r\n]/g, " ") of a string.
escapeTSVValue(value) ==
    [k \in 1..Len(value) |-> IF value[k] \in {TAB, CR, LF} THEN SP ELSE value[k]]

RECURSIVE CollapseNewlines(_)
\* message.replace(/[\r\n]+/g, " "): every maximal run of CR and LF becomes
\* one space.
CollapseNewlines(text) ==
    IF text = <<>> THEN <<>>
    ELSE IF Head(text) \in {CR, LF}
    THEN IF Len(text) > 1 /\ text[2] \in {CR, LF}
         THEN CollapseNewlines(Tail(text))
         ELSE <<SP>> \o CollapseNewlines(Tail(text))
    ELSE <<Head(text)>> \o CollapseNewlines(Tail(text))

\* The row of one record.  escapeTSVValue of a number is its toString().
Row(result) ==
    << escapeTSVValue(result.model_family),
       escapeTSVValue(result.model_name),
       escapeTSVValue(result.parameters),
       escapeTSVValue(humanFileSize(result.size)),
       escapeTSVValue(result.query),
       escapeTSVValue(CollapseNewlines(result.message)),
       escapeTSVValue(MillisFixed(result.total_duration)),
       escapeTSVValue(MillisFixed(result.load_duration)),
       NumberToString(result.prompt_eval_count),
       escapeTSVValue(MillisFixed(result.prompt_eval_duration)),
       escapeTSVValue(PerSecondFixed(result.prompt_eval_count, result.prompt_eval_duration)),
       NumberToString(result.eval_count),
       escapeTSVValue(MillisFixed(result.eval_duration)),
       escapeTSVValue(PerSecondFixed(result.eval_count, result.eval_duration)),
       escapeTSVValue(result.created_at),
       escapeTSVValue(result.group_id) >>

RECURSIVE Join(_, _)
\* Array.prototype.join(separator) of an array of strings.
Join(parts, separator) ==
    IF parts = <<>> THEN <<>>
    ELSE IF Len(parts) = 1 THEN parts[1]
    ELSE parts[1] \o <<separator>> \o Join(Tail(parts), separator)

\* tsvContent: the header line and one line per row.
TsvContent(list) ==
    Join(<<Join([h \in 1..Len(headers) |-> escapeTSVValue(headers[h])], TAB)>>
             \o [k \in 1..Len(list) |-> Join(Row(list[k]), TAB)],
         LF)

\* The byte order mark the blob starts with.
BOM == "BOM"

\* NothingToExport without the test of the length.
NothingToExport_OnlyUndefined(list) == list.undefined

\* The test that stops the export: !this._responses || length === 0.
NothingToExport(list) == list.undefined \/ Len(list.array) = 0

\* _exportToExcel that reverses the cached list in place before it builds
\* the rows.
ExportToExcel_ReversesInPlace ==
    /\ alerts + Len(downloads) < MaxExports
    /\ IF NothingToExport(_responses)
       THEN /\ alerts' = alerts + 1
            /\ UNCHANGED <<downloads, _responses>>
       ELSE LET list == _responses.array
                reversed == [k \in 1..Len(list) |-> list[Len(list) + 1 - k]]
            IN /\ _responses' = Array(reversed)
               /\ downloads' = Append(downloads, <<BOM>> \o TsvContent(reversed))
               /\ UNCHANGED alerts
    /\ UNCHANGED <<viewerPc, reads, failures, now, store>>
    /\ UNCHANGED genVars

\* _exportToExcel: an alert, or a blob of the BOM and the TSV content
\* offered as responses.tsv.
ExportToExcel ==
    /\ alerts + Len(downloads) < MaxExports
    /\ IF NothingToExport(_responses)
       THEN /\ alerts' = alerts + 1
            /\ UNCHANGED downloads
       ELSE /\ downloads' = Append(downloads, <<BOM>> \o TsvContent(_responses.array))
            /\ UNCHANGED alerts
    /\ UNCHANGED <<viewerPc, _responses, reads, failures, now, store>>
    /\ UNCHANGED genVars

(***************************************************************************)
(* The specifications.                                                     *)
(*                                                                         *)
(* The generator never reads a variable the viewer writes, and the viewer  *)
(* reads of the generator's side only the store and the generator:done     *)
(* events.  So the generator's behaviours in the whole system are its      *)
(* behaviours beside a viewer that is never connected, and what concerns   *)
(* the generator and the store alone is checked under Spec.  ViewerSpec    *)
(* adds the viewer, beside a user who runs one prompt after the other.     *)
(***************************************************************************)
\* The user at the generator: checkboxes and the Run Message button.
User(prompts) ==
    \/ \E idx \in 1..Len(_llm) : ToggleSelection(idx)
    \/ \E queryInput \in prompts : HandleClick(queryInput)

\* The backend and the store answering.
Settle ==
    \/ ListResolve
    \/ \E r \in 1..Len(runs) : \E i \in 1..Len(runs[r].tasks) :
        \E response \in ChatResponses : ChatResolve(r, i, response)
    \/ \E r \in 1..Len(runs) : \E i \in 1..Len(runs[r].tasks) : AddResolve(r, i)

\* The backend and the store rejecting.
Reject ==
    \/ ListReject
    \/ \E r \in 1..Len(runs) : \E i \in 1..Len(runs[r].tasks) : ChatReject(r, i)
    \/ \E r \in 1..Len(runs) : \E i \in 1..Len(runs[r].tasks) : AddReject(r, i)

\* The viewer: its lifecycle, its reads and its export button.
Viewer ==
    \/ ConnectedCallback
    \/ ViewerFirstUpdated
    \/ \E result \in BagToSet(reads) : ReadResolve(result)
    \/ ExportToExcel

Next ==
    \/ GeneratorFirstUpdated
    \/ User(Prompts)
    \/ Settle
    \/ Reject

Spec == Init /\ [][Next]_vars

\* In ViewerSpec the user types one prompt and leaves the generator alone
\* while a run is in flight.
ViewerNext ==
    \/ GeneratorFirstUpdated
    \/ ~InFlight /\ User({<<"h", "i">>})
    \/ Settle
    \/ Reject
    \/ Viewer

ViewerSpec == Init /\ [][ViewerNext]_vars

\* TimedSpec: the generator, its user typing one prompt, beside a clock that
\* advances between its steps.
TimedNext ==
    \/ GeneratorFirstUpdated
    \/ User({<<"h", "i">>})
    \/ Settle
    \/ Reject
    \/ Tick

TimedSpec == Init /\ [][TimedNext]_vars

\* LiveSpec: every pending request, write and listing is answered in the
\* end, by a result or by a rejection.
LiveSpec == Spec /\ WF_vars(Settle \/ Reject)

(***************************************************************************)
(* ExportSpec: _exportToExcel as a function of the cached list, which is   *)
(* drawn from the lists of at most MaxRows records whose texts may hold    *)
(* tabs, carriage returns and newlines.                                    *)
(***************************************************************************)
Texts == { <<"a">>, <<"b", TAB, "c">>, <<CR, LF, "d", LF, LF>> }
\* The other five texts of a record (taken equal) and its numbers.
Others ==
    { [text |-> <<"o">>,
       size |-> 1536, total_duration |-> 2500000, load_duration |-> 1234567,
       prompt_eval_count |-> 3, prompt_eval_duration |-> 1500000,
       eval_count |-> 7, eval_duration |-> 2000000],
      [text |-> <<TAB, "p", LF, CR>>,
       size |-> 512, total_duration |-> 0, load_duration |-> 0,
       prompt_eval_count |-> 0, prompt_eval_duration |-> 0,
       eval_count |-> 5, eval_duration |-> 0] }

\* A stored record: the query, the message, the other texts and the numbers.
StoredRecord(query, message, other) ==
    [created_at |-> other.text, eval_count |-> other.eval_count,
     eval_duration |-> other.eval_duration, model_family |-> other.text,
     load_duration |-> other.load_duration, message |-> message,
     model_name |-> other.text, parameters |-> other.text,
     prompt_eval_count |-> other.prompt_eval_count,
     prompt_eval_duration |-> other.prompt_eval_duration, query |-> query,
     size |-> other.size, started |-> 0, total_duration |-> other.total_duration,
     group_id |-> other.text]

StoredRecords ==
    { StoredRecord(q, t, o) : q \in Texts, t \in Texts, o \in Others }

RECURSIVE AddAll(_, _)
\* The table after the records were added in their order.
AddAll(table, records) ==
    IF records = <<>> THEN table
    ELSE AddAll(StoreAdd(table, Head(records)), Tail(records))

ExportInit ==
    /\ _ollamaInstance = TRUE
    /\ listPc = "ready"
    /\ _llm = [i \in 1..Len(models) |-> Descriptor(models[i])]
    /\ _results = EmptyBag
    /\ _running = FALSE
    /\ _selectedLLM = <<>>
    /\ runs = <<>>
    /\ failures = 0
    /\ now = 0
    /\ \E n \in 0..MaxRows : \E records \in [1..n -> StoredRecords] :
           store = AddAll(<<>>, records)
    /\ viewerPc = "ready"
    /\ _responses = Array(store)
    /\ reads = EmptyBag
    /\ alerts = 0
    /\ downloads = <<>>

ExportNext == ExportToExcel

ExportSpec == ExportInit /\ [][ExportNext]_vars

(***************************************************************************)
(* Properties.                                                             *)
(***************************************************************************)
Runs == 1..Len(runs)
Tasks(r) == 1..Len(runs[r].tasks)

\* The indices of the stored records of a run identifier.
RecordsOf(uuid) == {k \in 1..Len(store) : store[k].group_id = uuid}

\* The indices of the stored records of a run identifier and a model name.
RecordsOfModel(uuid, name) ==
    {k \in RecordsOf(uuid) : store[k].model_name = name}

\* Every request and every write of run r has succeeded.
AllDone(r) == \A i \in Tasks(r) : runs[r].tasks[i].pc = "done"

\* The names of the descriptors that were checked when run r was clicked.
ChosenNames(r) == {_llm[idx].name : idx \in runs[r].chosen}

\* C1: once every request and every write of a run over a non-empty
\* selection has succeeded, the store holds exactly one record per selected
\* model under the run's identifier, the model names being pairwise distinct
\* and those of the selection, each with the prompt as its query; this in
\* every order of the responses and writes.
C1_RunRecords ==
    \A r \in Runs :
        (runs[r].chosen # {} /\ Len(runs[r].tasks) > 0 /\ AllDone(r)) =>
            LET ks == RecordsOf(runs[r].uuid)
            IN /\ Cardinality(ks) = Cardinality(runs[r].chosen)
               /\ {store[k].model_name : k \in ks} = ChosenNames(r)
               /\ \A k1, k2 \in ks : store[k1].model_name = store[k2].model_name => k1 = k2
               /\ \A k \in ks : store[k].query = runs[r].queryInput

\* C1: a run over both models has settled, its second response having been
\* stored before its first.
C1_Witness ==
    \E r \in Runs :
        /\ Cardinality(runs[r].chosen) = 2
        /\ Len(runs[r].tasks) = 2
        /\ AllDone(r)
        /\ \E k1, k2 \in RecordsOf(runs[r].uuid) :
               /\ k1 < k2
               /\ store[k1].model_name = _llm[runs[r].tasks[2].llm].name
               /\ store[k2].model_name = _llm[runs[r].tasks[1].llm].name

\* The tasks of run r whose request or write is outstanding.
Outstanding(r) == {i \in Tasks(r) : runs[r].tasks[i].pc \in {"chat", "add"}}

\* The tasks of run r whose record has been stored.
Stored(r) == {i \in Tasks(r) : runs[r].tasks[i].pc = "done"}

\* The tasks of run r whose request or write was rejected.
Rejected(r) == {i \in Tasks(r) : runs[r].tasks[i].pc \in {"rejected", "addRejected"}}

\* The tasks of run r whose request has not succeeded: pending or rejected.
Unanswered(r) == {i \in Tasks(r) : runs[r].tasks[i].pc \in {"chat", "rejected"}}

\* C2 as claimed: generator:done is dispatched by a run only with its counter
\* at the size of the selection, once, and with no request of the run
\* outstanding.
C2_DoneOnlyWhenComplete ==
    \A r \in Runs :
        runs[r].dispatched > 0 =>
            /\ runs[r].counter = Cardinality(runs[r].chosen)
            /\ runs[r].dispatched = 1
            /\ Outstanding(r) = {}

\* C2 as amended: a run has dispatched generator:done once for each of its
\* records in the store, that is once for each of its tasks whose write has
\* resolved, whatever its counter and its outstanding requests.
C2_DonePerStoredRecord ==
    \A r \in Runs :
        /\ runs[r].dispatched = Cardinality(Stored(r))
        /\ runs[r].dispatched = Cardinality(RecordsOf(runs[r].uuid))

\* C2: a run over two models has dispatched generator:done with its counter
\* at 1 and its other request outstanding.
C2_Witness ==
    \E r \in Runs :
        /\ Len(runs[r].tasks) = 2
        /\ runs[r].dispatched = 1
        /\ runs[r].counter = 1
        /\ Cardinality(Outstanding(r)) = 1

\* C3: a click over a non-empty selection sets the busy flag; unless a
\* request or write of the run is rejected or the button is clicked again,
\* the flag is cleared in the end; and once cleared it stays so until the
\* next click.
C3_BusyThenIdle ==
    /\ [][Len(runs') > Len(runs) => _running']_vars
    /\ \A r \in 1..MaxRuns :
           (Len(runs) = r /\ runs[r].chosen # {} /\ _running)
               ~> (Len(runs) >= r /\ (~_running \/ Len(runs) > r \/ Rejected(r) # {}))
    /\ [][(~_running /\ Len(runs') = Len(runs)) => ~_running']_vars

\* C3: the last run, over both models, has settled and the flag is cleared.
C3_Witness ==
    /\ Len(runs) > 0
    /\ Cardinality(runs[Len(runs)].chosen) = 2
    /\ AllDone(Len(runs))
    /\ ~_running

\* C4: while a request of the last run, clicked with no other run in flight,
\* is pending or rejected, that request has no record and has not been
\* counted, the counter is below the size of the selection, the busy flag is
\* set, and the requests of the run that succeeded have their records.
C4_UnansweredKeepsBusy ==
    \A r \in Runs :
        (r = Len(runs) /\ runs[r].alone /\ Unanswered(r) # {}) =>
            /\ _running
            /\ runs[r].counter = Cardinality(Tasks(r) \ Unanswered(r))
            /\ runs[r].counter < Cardinality(runs[r].chosen)
            /\ \A i \in Unanswered(r) :
                   RecordsOfModel(runs[r].uuid, _llm[runs[r].tasks[i].llm].name) = {}
            /\ \A i \in Stored(r) :
                   RecordsOfModel(runs[r].uuid, _llm[runs[r].tasks[i].llm].name) # {}

\* C4: of the two requests of a single run one was rejected and the other
\* has its record stored.
C4_Witness ==
    \E r \in Runs :
        /\ r = Len(runs) /\ runs[r].alone
        /\ Len(runs[r].tasks) = 2
        /\ \E i \in Tasks(r) : runs[r].tasks[i].pc = "rejected"
        /\ Cardinality(Stored(r)) = 1
        /\ _running

\* C5: the last click, made with no descriptor checked, has issued no
\* request, stored no record and dispatched no generator:done, and the busy
\* flag it set is still set.
C5_EmptySelectionStaysBusy ==
    \A r \in Runs :
        (r = Len(runs) /\ runs[r].chosen = {}) =>
            /\ runs[r].tasks = <<>>
            /\ RecordsOf(runs[r].uuid) = {}
            /\ runs[r].dispatched = 0
            /\ _running

\* C5: the button was clicked with the models listed and none checked.
C5_Witness ==
    /\ Len(runs) > 0
    /\ runs[Len(runs)].chosen = {}
    /\ Len(_llm) = NumModels
    /\ listPc = "ready"

\* C6: the requests of a run are those of the descriptors checked at the
\* click and its records are of these models, whatever is checked since;
\* the length the last run is counted against is the number checked at the
\* click, and a single run that has cleared the busy flag has counted them
\* all.
C6_SelectionCaptured ==
    \A r \in Runs :
        /\ Len(runs[r].tasks) = Cardinality(runs[r].chosen)
        /\ {runs[r].tasks[i].llm : i \in Tasks(r)} = runs[r].chosen
        /\ {store[k].model_name : k \in RecordsOf(runs[r].uuid)} \subseteq ChosenNames(r)
        /\ r = Len(runs) => Len(_selectedLLM) = Cardinality(runs[r].chosen)
        /\ (r = Len(runs) /\ runs[r].alone /\ runs[r].chosen # {} /\ ~_running) =>
               runs[r].counter = Cardinality(runs[r].chosen)

\* C6: a single run over both models has cleared the busy flag after one of
\* its models was unchecked with both requests pending.
C6_Witness ==
    \E r \in Runs :
        /\ r = Len(runs) /\ runs[r].alone
        /\ Cardinality(runs[r].chosen) = 2
        /\ Cardinality({idx \in 1..Len(_llm) : _llm[idx].selected}) = 1
        /\ Outstanding(r) # {}
        /\ ~_running

\* C7: no step removes or changes a stored record, and a task has exactly
\* one record under its run identifier and model name once its write has
\* resolved and none before or after a rejection.
C7_AppendOnly ==
    /\ [][/\ Len(store') >= Len(store)
          /\ \A k \in 1..Len(store) : store'[k] = store[k]]_vars
    /\ [](\A r \in Runs : \A i \in Tasks(r) :
            Cardinality(RecordsOfModel(runs[r].uuid, _llm[runs[r].tasks[i].llm].name))
                = IF runs[r].tasks[i].pc = "done" THEN 1 ELSE 0)
    /\ [](\A k \in 1..Len(store) : store[k].id = k)

\* C7: two records are stored, the viewer has read them and exported them,
\* and a checkbox has changed since the last click.
C7_Witness ==
    /\ Len(store) >= 2
    /\ _responses = Array(store)
    /\ Len(downloads) >= 1
    /\ Len(runs) > 0
    /\ runs[Len(runs)].chosen # {idx \in 1..Len(_llm) : _llm[idx].selected}

\* C8 as claimed: with the viewer ready, the last run finished and no read
\* in flight, the cached list is the store's content.
C8_CacheIsStore ==
    (/\ viewerPc = "ready"
     /\ reads = EmptyBag
     /\ Len(runs) > 0
     /\ runs[Len(runs)].chosen # {}
     /\ AllDone(Len(runs)))
        => _responses = Array(store)

\* C9: an export with an undefined or empty cached list shows one alert and
\* offers no file, an export with a non-empty list offers exactly one file
\* and shows no alert, and neither changes the cached list or the store.
C9_ExportGuard ==
    [][ExportToExcel =>
          /\ UNCHANGED <<_responses, store>>
          /\ IF _responses.undefined \/ _responses.array = <<>>
             THEN alerts' = alerts + 1 /\ downloads' = downloads
             ELSE /\ alerts' = alerts
                  /\ Len(downloads') = Len(downloads) + 1
                  /\ SubSeq(downloads', 1, Len(downloads)) = downloads]_vars

\* C9: one export found the list empty and another found records in it.
C9_Witness ==
    /\ alerts = 1
    /\ Len(downloads) = 1
    /\ _responses.array # <<>>

\* How many times character ch occurs in text.
Count(text, ch) == Cardinality({c \in 1..Len(text) : text[c] = ch})

RECURSIVE Split(_, _)
\* String.prototype.split(separator) for a one-character separator.
Split(text, separator) ==
    IF \A c \in 1..Len(text) : text[c] # separator THEN <<text>>
    ELSE LET c == CHOOSE c \in 1..Len(text) :
                      text[c] = separator /\ \A b \in 1..(c - 1) : text[b] # separator
         IN <<SubSeq(text, 1, c - 1)>> \o Split(SubSeq(text, c + 1, Len(text)), separator)

\* C10: the row of every cached record has 16 fields, none of which holds a
\* tab, a carriage return or a newline; and every exported file is, after
\* its byte order mark, one line per record after the header line, each
\* line with exactly 15 tabs.
C10_RowsAreTabular ==
    /\ \A k \in 1..Len(_responses.array) :
           LET row == Row(_responses.array[k])
           IN /\ Len(row) = 16
              /\ \A f \in 1..Len(row) : \A c \in 1..Len(row[f]) :
                     row[f][c] \notin {TAB, CR, LF}
    /\ \A d \in 1..Len(downloads) :
           LET lines == Split(Tail(downloads[d]), LF)
           IN /\ Head(downloads[d]) = BOM
              /\ Len(lines) = Len(_responses.array) + 1
              /\ \A l \in 1..Len(lines) : Count(lines[l], TAB) = 15

\* C10: a list of two records was exported, one with a tab in its query and
\* newlines in its message, one with a carriage return in its other texts.
C10_Witness ==
    /\ Len(downloads) >= 1
    /\ Len(_responses.array) = 2
    /\ \E k \in 1..2 :
           /\ Count(_responses.array[k].query, TAB) > 0
           /\ Count(_responses.array[k].message, LF) > 1
    /\ \E k \in 1..2 : Count(_responses.array[k].model_name, CR) > 0

\* C11: the export is idempotent: an export of a non-empty cached list
\* offers a file whose content is that of every file offered before over the
\* same list, it is the byte order mark and the TSV content of that list,
\* and the export leaves the cached list and the store as they were.
C11_ExportIdempotent ==
    [][(ExportToExcel /\ ~NothingToExport(_responses)) =>
          /\ _responses' = _responses
          /\ store' = store
          /\ downloads'[Len(downloads')] = <<BOM>> \o TsvContent(_responses'.array)
          /\ \A d \in 1..Len(downloads) :
                 downloads'[Len(downloads')] = downloads[d]]_vars

\* C11: a list of two different records was exported twice.
C11_Witness ==
    /\ Len(downloads) = 2
    /\ Len(_responses.array) = 2
    /\ Row(_responses.array[1]) # Row(_responses.array[2])
    /\ store = _responses.array

\* C12 as claimed: a click on Run Message after the listing has failed
\* starts no chat request, stores no record and leaves the busy flag as it
\* was.
C12_FailedListingHalts ==
    [][(listPc = "failed" /\ \E queryInput \in Prompts : HandleClick(queryInput)) =>
          /\ store' = store
          /\ \A r \in 1..Len(runs') : runs'[r].tasks = <<>>
          /\ _running' = _running]_vars

\* C13 as claimed: the started value of every stored record is the time at
\* which its run was submitted, so that all records of one run carry the
\* same value, which is no later than the arrival of any of the run's
\* responses.
C13_StartedIsSubmission ==
    \A r \in Runs : \A k \in RecordsOf(runs[r].uuid) :
        store[k].started = runs[r].clicked

\* Every request of run r has been answered and every write of run r has
\* succeeded or failed.
ChatsAnsweredWritesSettled(r) ==
    \A i \in Tasks(r) : runs[r].tasks[i].pc \in {"done", "addRejected"}

\* C14 as claimed: when the last run, started with nothing else in flight
\* over a non-empty selection, has had all its requests answered and all
\* its writes settled, some of them by a failure, the component is idle.
C14_IdleDespiteFailedWrite ==
    (/\ Len(runs) > 0
     /\ runs[Len(runs)].alone
     /\ Len(runs[Len(runs)].tasks) > 0
     /\ ChatsAnsweredWritesSettled(Len(runs))
     /\ \E i \in Tasks(Len(runs)) : runs[Len(runs)].tasks[i].pc = "addRejected")
        => ~_running

\* C15: every stored record belongs to exactly one run.  The identifiers of
\* two clicks differ, also when the second click came while requests of the
\* first were in flight; every record a run is writing carries the run's
\* identifier; the records stored under a run's identifier are as many as
\* the run's writes that succeeded; and the identifier of every stored
\* record is that of exactly one run.
C15_OneRunPerRecord ==
    /\ \A r1, r2 \in Runs : runs[r1].uuid = runs[r2].uuid => r1 = r2
    /\ \A r \in Runs : \A i \in Tasks(r) :
           runs[r].tasks[i].pc = "add" => runs[r].tasks[i].record.group_id = runs[r].uuid
    /\ \A r \in Runs :
           Cardinality(RecordsOf(runs[r].uuid))
               = Cardinality({i \in Tasks(r) : runs[r].tasks[i].pc = "done"})
    /\ \A k \in 1..Len(store) :
           Cardinality({r \in Runs : runs[r].uuid = store[k].group_id}) = 1

\* C15: the second run was clicked while the first was in flight, and a
\* record of the second run was stored between two records of the first.
C15_Witness ==
    /\ Len(runs) = 2
    /\ ~runs[2].alone
    /\ Len(store) >= 3
    /\ store[1].group_id = runs[1].uuid
    /\ store[2].group_id = runs[2].uuid
    /\ store[3].group_id = runs[1].uuid

\* C16 as claimed: the counter of a run is incremented only after the
\* record was stored, so it never exceeds the number of the run's records
\* in the store.
C16_CounterCountsStored ==
    \A r \in Runs : runs[r].counter <= Cardinality(RecordsOf(runs[r].uuid))

\* C17 as claimed, for the requests: also when a click comes while an
\* earlier run is in flight, the component is busy as long as a chat
\* request of any run is outstanding.
C17_BusyWhileRequestOutstanding ==
    \A r \in Runs : \A i \in Tasks(r) :
        runs[r].tasks[i].pc = "chat" => _running

\* Whether the table holds the record under some id.
Holds(table, record) ==
    \E k \in 1..Len(table) : table[k] = [id |-> table[k].id] @@ record

\* C18: in every step in which a task dispatches generator:done, the store
\* holds the task's record after the step, and with the viewer ready the
\* step starts a read whose result holds that record.
C18_DoneAfterStored ==
    [][\A r \in Runs : \A i \in Tasks(r) :
          (/\ Len(runs') = Len(runs)
           /\ runs[r].tasks[i].pc = "add"
           /\ runs'[r].dispatched > runs[r].dispatched
           /\ runs'[r].tasks[i].pc = "done")
              => /\ Holds(store', runs[r].tasks[i].record)
                 /\ viewerPc = "ready" =>
                        \E result \in BagToSet(reads') :
                            /\ CopiesIn(result, reads') = CopiesIn(result, reads) + 1
                            /\ ~result.undefined
                            /\ Holds(result.array, runs[r].tasks[i].record)]_vars

\* C18: both tasks of the only run have dispatched their events with the
\* viewer ready: beside the read of the viewer's firstUpdated the reads the
\* two events started are in flight, one of them with both records.
C18_Witness ==
    /\ viewerPc = "ready"
    /\ Len(runs) = 1
    /\ Len(runs[1].tasks) = 2
    /\ AllDone(1)
    /\ runs[1].dispatched = 2
    /\ BagCardinality(reads) = 3
    /\ BagIn(Array(store), reads)
    /\ Cardinality(RecordsOf(runs[1].uuid)) = 2

\* C19 as claimed: while the component is busy over a non-empty selection,
\* the in-memory results behind the progress bar are no more than the
\* models of the selection, so that the bar's value is within 0..100.
C19_ProgressWithinSelection ==
    (_running /\ Len(_selectedLLM) > 0) =>
        BagCardinality(_results) * 100 <= 100 * Len(_selectedLLM)

====
